---- MODULE Spec2Model ----
(***************************************************************************)
(* Model of exam-quiz.py: main's dataset filter, the ExamQuiz session      *)
(* (__init__, run, ask_question, show_results) and the process exit.       *)
(* Strings that the code transforms (category, answer line) are sequences  *)
(* of one-character strings so that lower(), upper() and strip() are       *)
(* computed character by character.                                        *)
(***************************************************************************)
EXTENDS Integers, Sequences, FiniteSets, TLC

(* ------------------------------ bounds --------------------------------- *)
\* --count ranges over -MaxCount..MaxCount and the parser default
MaxCount == 2
\* longest line typed on standard input
MaxLineLen == 2
\* largest total for which show_results is applied to every (score, total)
MaxTotal == 20

(* ------------------------- program constants --------------------------- *)
DefaultCount == 10

Min(a, b) == IF a <= b THEN a ELSE b
Max(a, b) == IF a >= b THEN a ELSE b

(* ------------------------------ strings -------------------------------- *)
UpperLetters ==
  <<"A","B","C","D","E","F","G","H","I","J","K","L","M",
    "N","O","P","Q","R","S","T","U","V","W","X","Y","Z">>
LowerLetters ==
  <<"a","b","c","d","e","f","g","h","i","j","k","l","m",
    "n","o","p","q","r","s","t","u","v","w","x","y","z">>

\* characters removed by str.strip()
Whitespace == {" ", "\t"}

LowerChar(c) ==
  IF \E k \in 1..26 : UpperLetters[k] = c
    THEN LowerLetters[CHOOSE k \in 1..26 : UpperLetters[k] = c]
    ELSE c

UpperChar(c) ==
  IF \E k \in 1..26 : LowerLetters[k] = c
    THEN UpperLetters[CHOOSE k \in 1..26 : LowerLetters[k] = c]
    ELSE c

\* str.lower()
Lower(s) == [k \in 1..Len(s) |-> LowerChar(s[k])]

\* str.upper()
Upper(s) == [k \in 1..Len(s) |-> UpperChar(s[k])]

RECURSIVE LStrip(_)
LStrip(s) ==
  IF s # <<>> /\ Head(s) \in Whitespace THEN LStrip(Tail(s)) ELSE s

RECURSIVE RStrip(_)
RStrip(s) ==
  IF s # <<>> /\ s[Len(s)] \in Whitespace
    THEN RStrip(SubSeq(s, 1, Len(s) - 1))
    ELSE s

\* str.strip()
Strip(s) == RStrip(LStrip(s))

\* a variant that upper-cases without trimming
NormalizeNoStrip(line) == Upper(line)

\* input(...).strip().upper()
Normalize(line) == Upper(Strip(line))

(* ------------------------------ dataset -------------------------------- *)
QUESTIONS ==
  << [id |-> 1, category |-> <<"V","L","A","N">>, difficulty |-> "easy",
      options |-> {<<"A">>, <<"B">>, <<"C">>, <<"D">>}, answer |-> <<"B">>],
     [id |-> 2, category |-> <<"F","i","r","e","w","a","l","l">>,
      difficulty |-> "medium",
      options |-> {<<"A">>, <<"B">>, <<"C">>, <<"D">>}, answer |-> <<"C">>] >>

(* --------------------------- command line ------------------------------ *)
\* an optional argument: given = FALSE is Python's None
None == [given |-> FALSE, value |-> <<>>]
Some(v) == [given |-> TRUE, value |-> v]
NoDifficulty == [given |-> FALSE, value |-> ""]

CategoryArgs ==
  { None, Some(<<>>),
    Some(<<"V","L","A","N">>), Some(<<"v","l","a","n">>),
    Some(<<"F","I","R","E","W","A","L","L">>),
    Some(<<"W","A","N">>), Some(<<"v","l","a">>) }

DifficultyChoices == {"easy", "medium", "hard"}

DifficultyArgs ==
  { NoDifficulty } \cup { [given |-> TRUE, value |-> d] : d \in DifficultyChoices }

CountArgs == ((0 - MaxCount)..MaxCount) \cup {DefaultCount}

ParsedArgs ==
  [count : CountArgs, category : CategoryArgs,
   difficulty : DifficultyArgs, random : BOOLEAN]

\* Python truthiness of an optional string argument: None and "" are false
TruthyCategory(a) == a.given /\ a.value # <<>>
TruthyDifficulty(a) == a.given /\ a.value # ""

\* main, lines 118-124
FilterQuestions(a) ==
  LET byCategory ==
        IF TruthyCategory(a.category)
          THEN SelectSeq(QUESTIONS,
                 LAMBDA q : Lower(q.category) = Lower(a.category.value))
          ELSE QUESTIONS
  IN IF TruthyDifficulty(a.difficulty)
       THEN SelectSeq(byCategory, LAMBDA q : q.difficulty = a.difficulty.value)
       ELSE byCategory

(* ----------------------------- selection ------------------------------- *)
\* ExamQuiz.__init__: self.count
ClampCount(count, qs) == Min(count, Len(qs))

\* list[:c] with Python's treatment of a negative stop
PySliceTo(s, c) ==
  LET n == Len(s)
      stop == IF c < 0 THEN Max(0, n + c) ELSE Min(c, n)
  IN SubSeq(s, 1, stop)

\* random.sample raises ValueError unless 0 <= k <= len(population)
SampleRaises(population, k) == k < 0 \/ k > Len(population)

\* a draw that may pick the same position again
RandomSampleWithReplacement(population, k) ==
  { [j \in 1..k |-> population[f[j]]] : f \in [1..k -> 1..Len(population)] }

\* every outcome of random.sample(population, k): k distinct positions
RandomSample(population, k) ==
  { [j \in 1..k |-> population[f[j]]] :
      f \in { g \in [1..k -> 1..Len(population)] :
                \A x, y \in 1..k : x # y => g[x] # g[y] } }

(* ------------------------------ results -------------------------------- *)
\* score / total * 100 kept as an exact fraction <<numerator, denominator>>
Percentage(score, total) ==
  IF total > 0 THEN <<score * 100, total>> ELSE <<0, 1>>

\* percentage >= n
AtLeast(p, n) == p[1] >= n * p[2]

\* thresholds compared strictly
VerdictStrict(p) ==
  IF p[1] > 90 * p[2] THEN <<"EXZELLENT">>
  ELSE IF p[1] > 70 * p[2] THEN <<"GUT">>
  ELSE IF p[1] > 50 * p[2] THEN <<"BESTANDEN">>
  ELSE <<"NICHT BESTANDEN">>

\* the verdict lines printed by the if/elif chain of show_results
Verdict(p) ==
  IF AtLeast(p, 90) THEN <<"EXZELLENT">>
  ELSE IF AtLeast(p, 70) THEN <<"GUT">>
  ELSE IF AtLeast(p, 50) THEN <<"BESTANDEN">>
  ELSE <<"NICHT BESTANDEN">>

(* ------------------------------- input --------------------------------- *)
InputChars == {"B", "b", "C", "X", " "}

RECURSIVE LinesOfLen(_)
LinesOfLen(n) ==
  IF n = 0 THEN {<<>>}
  ELSE { Append(l, c) : l \in LinesOfLen(n - 1), c \in InputChars }

\* the lines that can arrive on standard input
InputLines == UNION { LinesOfLen(n) : n \in 0..MaxLineLen }

(* ------------------------------- state --------------------------------- *)
VARIABLES
  pc,            \* position of the process
  args,          \* result of parser.parse_args()
  questions,     \* main's local list
  quiz,          \* <<>> until ExamQuiz(...) is constructed, then <<session>>
  selected,      \* run's local list
  i,             \* 1-based number of the question the loop is at
  asked,         \* records passed to ask_question so far
  reads,         \* calls of input() so far: kind and question number
  lastInput,     \* raw line of the latest answer
  allExact,      \* every answer so far was the exact stored key
  percentage,    \* show_results' local, <<>> until computed
  verdict,       \* verdict lines printed
  resultsShown,  \* number of times the result block was printed
  error,         \* uncaught exception, "none" if there is none
  exit           \* <<>> while running, then <<status>>

vars == <<pc, args, questions, quiz, selected, i, asked, reads, lastInput,
          allExact, percentage, verdict, resultsShown, error, exit>>

\* ExamQuiz.__init__
NewQuiz(qs, count, random_order) ==
  [questions |-> qs, count |-> ClampCount(count, qs),
   random_order |-> random_order, score |-> 0, total |-> 0]

\* a variant that scores without counting the question
ScoredNoTotal(session, answer, question) ==
  [session EXCEPT !.score = IF answer = question.answer THEN @ + 1 ELSE @]

\* ask_question, lines 81-83
Scored(session, answer, question) ==
  [session EXCEPT !.total = @ + 1,
                  !.score = IF answer = question.answer THEN @ + 1 ELSE @]

Init ==
  /\ pc = "filter"
  /\ args \in ParsedArgs
  /\ questions = QUESTIONS
  /\ quiz = <<>>
  /\ selected = <<>>
  /\ i = 1
  /\ asked = <<>>
  /\ reads = <<>>
  /\ lastInput = <<>>
  /\ allExact = TRUE
  /\ percentage = <<>>
  /\ verdict = <<>>
  /\ resultsShown = 0
  /\ error = "none"
  /\ exit = <<>>

\* main, lines 120-124
Filter ==
  /\ pc = "filter"
  /\ questions' = FilterQuestions(args)
  /\ pc' = "check"
  /\ UNCHANGED <<args, quiz, selected, i, asked, reads, lastInput, allExact,
                 percentage, verdict, resultsShown, error, exit>>

\* main, lines 126-128
ExitEmpty ==
  /\ pc = "check"
  /\ questions = <<>>
  /\ exit' = <<1>>
  /\ pc' = "done"
  /\ UNCHANGED <<args, questions, quiz, selected, i, asked, reads, lastInput,
                 allExact, percentage, verdict, resultsShown, error>>

\* main, line 130
Construct ==
  /\ pc = "check"
  /\ questions # <<>>
  /\ quiz' = <<NewQuiz(questions, args.count, args.random)>>
  /\ pc' = "run"
  /\ UNCHANGED <<args, questions, selected, i, asked, reads, lastInput,
                 allExact, percentage, verdict, resultsShown, error, exit>>

\* run, line 60, when the selection is produced
Select ==
  /\ pc = "run"
  /\ IF quiz[1].random_order
       THEN /\ ~SampleRaises(quiz[1].questions, quiz[1].count)
            /\ selected' \in RandomSample(quiz[1].questions, quiz[1].count)
       ELSE selected' = PySliceTo(quiz[1].questions, quiz[1].count)
  /\ i' = 1
  /\ pc' = "ask"
  /\ UNCHANGED <<args, questions, quiz, asked, reads, lastInput, allExact,
                 percentage, verdict, resultsShown, error, exit>>

\* run, line 60, when random.sample raises: the exception is not caught
\* anywhere, the interpreter prints the traceback and exits with status 1
SelectRaises ==
  /\ pc = "run"
  /\ quiz[1].random_order
  /\ SampleRaises(quiz[1].questions, quiz[1].count)
  /\ error' = "ValueError"
  /\ exit' = <<1>>
  /\ pc' = "done"
  /\ UNCHANGED <<args, questions, quiz, selected, i, asked, reads, lastInput,
                 allExact, percentage, verdict, resultsShown>>

\* a variant of ask_question without the trailing input()
AskAnswerNoAck ==
  /\ pc = "ask"
  /\ i <= Len(selected)
  /\ \E line \in InputLines :
       /\ lastInput' = line
       /\ quiz' = <<Scored(quiz[1], Normalize(line), selected[i])>>
       /\ allExact' = (allExact /\ line = selected[i].answer)
  /\ asked' = Append(asked, selected[i])
  /\ reads' = Append(reads, [kind |-> "answer", num |-> i])
  /\ i' = i + 1
  /\ pc' = "ask"
  /\ UNCHANGED <<args, questions, selected, percentage, verdict,
                 resultsShown, error, exit>>

\* ask_question, lines 67-88: the question is shown, the answer line is read
\* and scored
AskAnswer ==
  /\ pc = "ask"
  /\ i <= Len(selected)
  /\ \E line \in InputLines :
       /\ lastInput' = line
       /\ quiz' = <<Scored(quiz[1], Normalize(line), selected[i])>>
       /\ allExact' = (allExact /\ line = selected[i].answer)
  /\ asked' = Append(asked, selected[i])
  /\ reads' = Append(reads, [kind |-> "answer", num |-> i])
  /\ pc' = "ack"
  /\ UNCHANGED <<args, questions, selected, i, percentage, verdict,
                 resultsShown, error, exit>>

\* ask_question, line 89: the acknowledgment line is read and dropped, the
\* loop of run moves on
Acknowledge ==
  /\ pc = "ack"
  /\ \E line \in InputLines :
       reads' = Append(reads, [kind |-> "ack", num |-> i])
  /\ i' = i + 1
  /\ pc' = "ask"
  /\ UNCHANGED <<args, questions, quiz, selected, asked, lastInput, allExact,
                 percentage, verdict, resultsShown, error, exit>>

\* run, line 65 and show_results
ShowResults ==
  /\ pc = "ask"
  /\ i > Len(selected)
  /\ percentage' = <<Percentage(quiz[1].score, quiz[1].total)>>
  /\ verdict' = verdict \o Verdict(Percentage(quiz[1].score, quiz[1].total))
  /\ resultsShown' = resultsShown + 1
  /\ pc' = "return"
  /\ UNCHANGED <<args, questions, quiz, selected, i, asked, reads, lastInput,
                 allExact, error, exit>>

\* main returns, the interpreter exits with status 0
ProcessExit ==
  /\ pc = "return"
  /\ exit' = <<0>>
  /\ pc' = "done"
  /\ UNCHANGED <<args, questions, quiz, selected, i, asked, reads, lastInput,
                 allExact, percentage, verdict, resultsShown, error>>

Next ==
  \/ Filter
  \/ ExitEmpty
  \/ Construct
  \/ Select
  \/ SelectRaises
  \/ AskAnswer
  \/ Acknowledge
  \/ ShowResults
  \/ ProcessExit

Spec == Init /\ [][Next]_vars

\* a session about to report, for every score and total up to MaxTotal
InitVerdict ==
  /\ pc = "ask"
  /\ args = [count |-> DefaultCount, category |-> None,
             difficulty |-> NoDifficulty, random |-> FALSE]
  /\ questions = QUESTIONS
  /\ \E t \in 0..MaxTotal : \E s \in 0..t :
       quiz = <<[questions |-> QUESTIONS, count |-> Len(QUESTIONS),
                 random_order |-> FALSE, score |-> s, total |-> t]>>
  /\ selected = <<>>
  /\ i = 1
  /\ asked = <<>>
  /\ reads = <<>>
  /\ lastInput = <<>>
  /\ allExact = TRUE
  /\ percentage = <<>>
  /\ verdict = <<>>
  /\ resultsShown = 0
  /\ error = "none"
  /\ exit = <<>>

InitAll == Init \/ InitVerdict

\* the program together with show_results applied to every (score, total)
SpecVerdict == InitAll /\ [][Next]_vars

(* ----------------------------- properties ------------------------------ *)
Started == Len(quiz) = 1

Range(s) == { s[k] : k \in 1..Len(s) }

NoDuplicates(s) == \A x, y \in 1..Len(s) : x # y => s[x] # s[y]

\* the first n elements, none when n is not positive
FirstN(s, n) == IF n <= 0 THEN <<>> ELSE SubSeq(s, 1, n)

\* s is t with some elements left out, the others in their order
IsSubsequence(s, t) ==
  \E f \in [1..Len(s) -> 1..Len(t)] :
    /\ \A x, y \in 1..Len(s) : x < y => f[x] < f[y]
    /\ \A x \in 1..Len(s) : s[x] = t[f[x]]

\* two characters that are the same letter in either case
SameLetter(a, b) ==
  \/ a = b
  \/ \E k \in 1..26 : {a, b} = {UpperLetters[k], LowerLetters[k]}

CaseInsensitiveEq(s, t) ==
  /\ Len(s) = Len(t)
  /\ \A k \in 1..Len(s) : SameLetter(s[k], t[k])

\* q meets every criterion given on the command line
Satisfies(q) ==
  /\ args.category.given => CaseInsensitiveEq(q.category, args.category.value)
  /\ args.difficulty.given => q.difficulty = args.difficulty.value

\* line is key, in either case, between runs of whitespace
MatchesKey(line, key) ==
  \E a \in 0..Len(line) :
    /\ a + Len(key) <= Len(line)
    /\ \A k \in 1..a : line[k] \in Whitespace
    /\ \A k \in 1..Len(key) : SameLetter(line[a + k], key[k])
    /\ \A k \in (a + Len(key) + 1)..Len(line) : line[k] \in Whitespace

\* C1: when a run over a non-empty filtered list has ended, no error was
\* raised and the number of questions asked (the final total) is
\* min(requested count, len(filtered questions)), for every requested count
\* and both order modes.
C1_CountAlwaysClamped ==
  (pc = "done" /\ questions # <<>>) =>
    /\ error = "none"
    /\ Started
    /\ quiz[1].total = Min(args.count, Len(questions))
    /\ Len(asked) = quiz[1].total

\* C2: the list main passes on is a subsequence of QUESTIONS in original
\* order and holds exactly the records that satisfy every supplied criterion
\* (category case-insensitively, difficulty exactly); an omitted criterion
\* imposes no constraint.
C2_FilterExact ==
  pc # "filter" =>
    /\ IsSubsequence(questions, QUESTIONS)
    /\ \A k \in 1..Len(QUESTIONS) :
         Satisfies(QUESTIONS[k]) <=> QUESTIONS[k] \in Range(questions)

\* C3: with an empty filtered list main ends with status 1 and no session
\* is constructed, no question asked, no input read; with a non-empty list
\* a session is constructed and the process ends with status 0, the results
\* having been shown.
C3_EmptyExitsOne ==
  /\ (pc # "filter" /\ questions = <<>>) =>
       /\ pc \in {"check", "done"}
       /\ quiz = <<>> /\ asked = <<>> /\ reads = <<>>
       /\ pc = "done" => exit = <<1>>
  /\ (pc \notin {"filter", "check"} /\ questions # <<>>) => Started
  /\ (pc = "done" /\ questions # <<>>) => (exit = <<0>> /\ resultsShown = 1)
  /\ exit = <<0>> => resultsShown = 1

\* C4: in a session 0 <= score <= total always; construction sets both to
\* 0; a step changes them only when it asks a question, and then total
\* grows by exactly 1 and score by 0 or 1.
C4_ScoreTotal ==
  /\ [](Started => (0 <= quiz[1].score /\ quiz[1].score <= quiz[1].total))
  /\ [][(~Started /\ Len(quiz') = 1) =>
          (quiz'[1].score = 0 /\ quiz'[1].total = 0)]_vars
  /\ [][Started =>
          /\ Len(quiz') = 1
          /\ quiz'[1].total - quiz[1].total = Len(asked') - Len(asked)
          /\ quiz'[1].total - quiz[1].total \in {0, 1}
          /\ quiz'[1].score - quiz[1].score \in {0, 1}
          /\ quiz'[1].score # quiz[1].score =>
               quiz'[1].total = quiz[1].total + 1]_vars

C4_Witness ==
  /\ pc = "done" /\ Started
  /\ quiz[1].total = 2 /\ quiz[1].score = 1

\* C5: the percentage is 0 when total is 0, and every run over a non-empty
\* filtered list with a count other than 0 reports its results with
\* total > 0.
C5_ZeroTotalOnlyForZeroCount ==
  /\ (resultsShown > 0 /\ quiz[1].total = 0) => percentage[1][1] = 0
  /\ (pc = "done" /\ questions # <<>> /\ args.count # 0) =>
       (resultsShown = 1 /\ quiz[1].total > 0)

\* C6: in sequential mode the questions asked are exactly the first count
\* records of the filtered list in their original order, count being the
\* clamped count.
C6_SequentialFirstCount ==
  (Started /\ ~quiz[1].random_order /\ pc \in {"ask", "ack", "return", "done"}) =>
    /\ selected = FirstN(questions, quiz[1].count)
    /\ asked = FirstN(selected, Len(asked))
    /\ pc \in {"return", "done"} => asked = FirstN(questions, quiz[1].count)

\* C7: in random mode, whatever the draw, no record is asked twice, every
\* asked record is in the filtered list, and the draw leaves the filtered
\* list as it was.
C7_DrawWithoutReplacement ==
  /\ []((Started /\ quiz[1].random_order) =>
          /\ NoDuplicates(selected) /\ NoDuplicates(asked)
          /\ Range(selected) \subseteq Range(questions)
          /\ Range(asked) \subseteq Range(questions)
          /\ quiz[1].questions = FilterQuestions(args))
  /\ [][(pc = "run" /\ quiz[1].random_order) =>
          (questions' = questions /\ quiz'[1].questions = quiz[1].questions)]_vars

C7_Witness ==
  /\ Started /\ quiz[1].random_order
  /\ pc = "done"
  /\ asked = <<QUESTIONS[2], QUESTIONS[1]>>

\* C8: show_results prints exactly one verdict: the top tier iff total > 0
\* and 100*score >= 90*total, the second iff 70*total <= 100*score <
\* 90*total, the third iff 50*total <= 100*score < 70*total, the failing
\* tier otherwise (total = 0 included); a run that asked at least one
\* question and got every exact key ends with score = total and the top tier.
C8_VerdictTiers ==
  resultsShown > 0 =>
    LET s == quiz[1].score
        t == quiz[1].total
    IN /\ Len(verdict) = 1
       /\ verdict[1] = "EXZELLENT" <=> (t > 0 /\ 100 * s >= 90 * t)
       /\ verdict[1] = "GUT" <=> (70 * t <= 100 * s /\ 100 * s < 90 * t)
       /\ verdict[1] = "BESTANDEN" <=> (50 * t <= 100 * s /\ 100 * s < 70 * t)
       /\ verdict[1] = "NICHT BESTANDEN" <=> (t = 0 \/ 100 * s < 50 * t)
       /\ (allExact /\ Len(asked) = t /\ t > 0) =>
            (s = t /\ verdict[1] = "EXZELLENT")

C8_Witness ==
  /\ resultsShown = 1
  /\ quiz[1].total = 10 /\ quiz[1].score = 9
  /\ verdict = <<"EXZELLENT">>

\* C9: the step that asks a question adds 1 to score iff the line is the
\* record's key in either case with whitespace around it; for any other
\* line, the empty one included, score stays, no error is raised, and
\* total is incremented either way.
C9_AnswerScoring ==
  [][Len(asked') = Len(asked) + 1 =>
       LET q == asked'[Len(asked')]
       IN /\ MatchesKey(lastInput', q.answer) =>
               quiz'[1].score = quiz[1].score + 1
          /\ ~MatchesKey(lastInput', q.answer) =>
               quiz'[1].score = quiz[1].score
          /\ quiz'[1].total = quiz[1].total + 1
          /\ error' = "none"
          /\ pc' # "done"]_vars

C9_Witness ==
  /\ pc = "ack"
  /\ lastInput = <<" ", "b">>
  /\ asked = <<QUESTIONS[1]>>
  /\ quiz[1].score = 1 /\ quiz[1].total = 1

\* C10: the k-th line read is the answer of question (k+1)/2 for odd k and
\* its acknowledgment for even k, two lines per question asked; reading an
\* acknowledgment leaves score and total alone; once questions are selected
\* the results are reported once, after the acknowledgment of the last
\* selected question.
C10_TwoLinesPerQuestion ==
  /\ [](/\ \A k \in 1..Len(reads) :
             reads[k] = [kind |-> IF k % 2 = 1 THEN "answer" ELSE "ack",
                         num |-> (k + 1) \div 2]
        /\ Len(reads) = (IF pc = "ack" THEN 2 * Len(asked) - 1
                                       ELSE 2 * Len(asked))
        /\ resultsShown <= 1
        /\ resultsShown = 1 =>
             (Len(reads) = 2 * Len(selected) /\ asked = selected)
        /\ (pc = "done" /\ Started /\ error = "none") => resultsShown = 1)
  /\ [][(Len(reads') = Len(reads) + 1 /\ reads'[Len(reads')].kind = "ack") =>
          quiz' = quiz]_vars

C10_Witness ==
  /\ pc = "done"
  /\ Len(reads) = 4
  /\ reads[2] = [kind |-> "ack", num |-> 1]
  /\ reads[3] = [kind |-> "answer", num |-> 2]
  /\ resultsShown = 1

====
